---- MODULE Spec2Model ----
(***************************************************************************)
(* Model of pkg/vendir/directory/directory.go: Directory.Sync assembles a  *)
(* destination tree in a staging directory, one content entry at a time,   *)
(* and swaps it into the destination path.  The file system is a function  *)
(* from paths (sequences of path elements) to nodes; every file system     *)
(* call of Sync is one step.                                               *)
(***************************************************************************)
EXTENDS Integers, Sequences, FiniteSets, TLC

VARIABLES opts, fs, pc, idx, lockConfig, err, calls, preDst, staged, preTmp, other,
          overlapped

vars == <<opts, fs, pc, idx, lockConfig, err, calls, preDst, staged, preTmp, other,
          overlapped>>

(* ---------------------------------------------------------------- bounds *)
MaxEntries == 2

(* ----------------------------------------------------------------- paths *)
\* filepath.Clean: drops empty elements (a trailing slash) and "." elements.
RECURSIVE Clean(_)
Clean(p) ==
    IF p = <<>> THEN <<>>
    ELSE IF Head(p) \in {"", "."} THEN Clean(Tail(p))
         ELSE <<Head(p)>> \o Clean(Tail(p))

\* filepath.Join: joins the elements and cleans the result.
Join(p, q) == Clean(p \o q)

\* filepath.Dir: all but the last element (a trailing slash counts as an
\* empty last element), cleaned.
Dir(p) == IF p = <<>> THEN <<>> ELSE Clean(SubSeq(p, 1, Len(p) - 1))

IsPrefix(p, q) == Len(p) <= Len(q) /\ SubSeq(q, 1, Len(p)) = p

Suffix(q, n) == SubSeq(q, n + 1, Len(q))

Prefixes(p) == {SubSeq(p, 1, n) : n \in 0..Len(p)}

tmpDir == <<".vendir-tmp">>
stagingTmpDir == Join(tmpDir, <<"staging">>)
incomingTmpDir == Join(tmpDir, <<"incoming">>)

(* ----------------------------------------------------------- file system *)
DirNode == [data |-> "dir", filtered |-> FALSE]
PreNode == [data |-> "preexisting", filtered |-> FALSE]
StaleNode == [data |-> "stale", filtered |-> FALSE]
PartialNode == [data |-> "partial", filtered |-> FALSE]

Exists(f, p) == Clean(p) \in DOMAIN f

Under(f, p) == {q \in DOMAIN f : IsPrefix(Clean(p), q)}

\* os.RemoveAll, successful: the path and everything below it are gone.
RemoveAll(f, p) == [q \in DOMAIN f \ Under(f, p) |-> f[q]]

\* os.RemoveAll, failing: an arbitrary part below the path is already gone
\* (children before parents), the path itself is still there.
RemoveAllFailed(f, p) ==
    {[q \in DOMAIN f \ R |-> f[q]] :
        R \in {S \in SUBSET (Under(f, p) \ {Clean(p)}) :
                 \A r \in S : \A q \in Under(f, p) : IsPrefix(r, q) => q \in S}}

\* cleanUpTmpDir, failing: of what a failed os.RemoveAll(tmpDir) leaves below
\* the staging root two cases are kept, nothing removed and everything removed.
cleanUpTmpDirFailed(f) ==
    {g \in RemoveAllFailed(f, tmpDir) : DOMAIN g = DOMAIN f \/ Under(g, tmpDir) = {tmpDir}}

\* os.MkdirAll, successful: the path and its missing ancestors are directories.
MkdirAll(f, p) ==
    [q \in DOMAIN f \cup Prefixes(Clean(p)) |->
        IF q \in DOMAIN f THEN f[q] ELSE DirNode]

\* os.MkdirAll, failing: some of the missing ancestors may have been created.
MkdirAllFailed(f, p) ==
    {MkdirAll(f, SubSeq(Clean(p), 1, n)) : n \in 0..(Len(Clean(p)) - 1)}

\* os.Rename, successful: the subtree at src is now at dst (replacing it).
Rename(f, src, dst) ==
    LET s == Clean(src)
        d == Clean(dst)
        moved == Under(f, s)
        kept == (DOMAIN f \ moved) \ Under(f, d)
    IN  [q \in kept \cup {d \o Suffix(m, Len(s)) : m \in moved} |->
            IF q \in kept THEN f[q]
            ELSE f[s \o Suffix(q, Len(d))]]

\* The contents of a directory writes a whole subtree as one node.
WriteNode(f, p, node) ==
    [q \in (DOMAIN f \ Under(f, p)) \cup {Clean(p)} |->
        IF q = Clean(p) THEN node ELSE f[q]]

\* What a failed Syncer or Filter leaves: nothing, or a partial result at the
\* path when its parent directory exists.
PartialWrites(f, p) ==
    {f} \cup (IF Exists(f, Dir(p)) THEN {WriteNode(f, p, PartialNode)} ELSE {})

\* The tree below a path, as an observer of that path sees it; the empty
\* function when the path does not exist.
Tree(f, p) ==
    [s \in {Suffix(q, Len(Clean(p))) : q \in Under(f, p)} |-> f[Clean(p) \o s]]

(* ------------------------------------------------------------- the input *)
\* (mutant) the HTTP case comes before the Git case.
KindOrder_HTTPFirst == <<"http", "git", "image", "githubRelease", "helmChart", "manual", "directory">>

\* The cases of the switch of Sync, in the order they are written.
KindOrder == <<"git", "http", "image", "githubRelease", "helmChart", "manual", "directory">>
Kinds == {KindOrder[n] : n \in DOMAIN KindOrder}
FetchKinds == {"git", "http", "image", "githubRelease", "helmChart"}

ContentPaths == {<<"a">>, <<"c", "d">>}
PopulatedSets == {{}} \cup {{k} : k \in Kinds} \cup {{"git", "http"}, {"manual", "directory"}}
ContentSpecs == [Path : ContentPaths, populated : PopulatedSets]
\* The destination is configured with a trailing slash ("vendor/out/"), the
\* case line 204 of Sync speaks of.
DirectoryPaths == {<<"vendor", "out", "">>}

Root == (<<>> :> DirNode)
RECURSIVE Populate(_, _, _)
Populate(f, base, leaves) ==
    IF leaves = {} THEN f
    ELSE LET l == CHOOSE x \in leaves : TRUE
         IN  Populate(WriteNode(MkdirAll(f, Dir(Join(base, l))), Join(base, l), PreNode),
                      base, leaves \ {l})

\* What a run may find on disk: no destination at all (not even its parent),
\* or a destination with some earlier content.
DstLeaves == {{<<"x">>}, {<<"a">>, <<"x">>}, {<<"a">>, <<"c", "d">>, <<"x">>}}
InitialDst(path) ==
    {Root} \cup {Populate(MkdirAll(Root, path), path, L) : L \in DstLeaves}

\* The destinations that an earlier, interrupted run left together with its
\* staging root; the other ones are found without a staging root.
InterruptedDst(path) ==
    {Populate(MkdirAll(Root, path), path, L) :
        L \in {{<<"x">>}, {<<"a">>, <<"c", "d">>, <<"x">>}}}

\* A leftover staging root of an earlier, interrupted run.
Leftover(f) ==
    WriteNode(MkdirAll(MkdirAll(f, stagingTmpDir), incomingTmpDir),
              Join(stagingTmpDir, <<"a">>), StaleNode)

(* ---------------------------------------------------------------- values *)
NoError == [msg |-> "nil", path |-> <<>>]
Error(m, p) == [msg |-> m, path |-> p]

N == Len(opts.Contents)
contents == opts.Contents[idx]
\* (mutant) only the last element of the content path is used.
stagingDstPath_Base == Join(stagingTmpDir, <<contents.Path[Len(contents.Path)]>>)
stagingDstPath == Join(stagingTmpDir, contents.Path)
stagingDstPathParent == Dir(stagingDstPath)
srcPath == Join(opts.Path, contents.Path)
parentPath == Dir(Clean(opts.Path))

\* The switch of Sync takes the first case whose field is populated.
RECURSIVE FirstPopulated(_, _)
FirstPopulated(c, n) ==
    IF n > Len(KindOrder) THEN "none"
    ELSE IF KindOrder[n] \in c.populated THEN KindOrder[n]
         ELSE FirstPopulated(c, n + 1)
Selected(c) == FirstPopulated(c, 1)

\* (mutant) the lock entry records the staging path instead of the content path.
LockDirectoryContents_StagingPath(c, k) ==
    [Path |-> Join(stagingTmpDir, c.Path), tags |-> {k}]

\* A lock entry: the content path and the one field set for the kind.
LockDirectoryContents(c, k) == [Path |-> c.Path, tags |-> {k}]

\* No second invocation of Sync in this working directory.
NoInvocation == [pc |-> "none"]

Init ==
    /\ opts \in [Path : DirectoryPaths,
                 Contents : UNION {[1..n -> ContentSpecs] : n \in 0..MaxEntries}]
    /\ \E f \in InitialDst(opts.Path) :
          fs = IF f \in InterruptedDst(opts.Path) THEN Leftover(f) ELSE f
    /\ pc = "cleanup"
    /\ idx = 1
    /\ lockConfig = [Path |-> opts.Path, Contents |-> <<>>]
    /\ err = NoError
    /\ calls = <<>>
    /\ preDst = Tree(fs, opts.Path)
    /\ staged = <<>>
    /\ preTmp = Tree(fs, tmpDir)
    /\ other = NoInvocation
    /\ overlapped = FALSE

(* --------------------------------------------------------------- actions *)
\* One call of a Syncer, of dircopy.Copy or of FileFilter.Apply, and whether it
\* returned without an error.
Call(o, k, i, succeeded) == [op |-> o, kind |-> k, entry |-> i, ok |-> succeeded]

Return(e) == /\ err' = e
             /\ pc' = "defer"

\* (mutant) the leftover staging root is not removed.
CleanUpTmpDir_Skip ==
    /\ pc = "cleanup"
    /\ fs' = fs
    /\ pc' = "mkStaging"
    /\ UNCHANGED <<opts, idx, lockConfig, err, calls, preDst, staged, preTmp, other,
                 overlapped>>

\* (mutant) only the incoming directory is removed.
CleanUpTmpDir_IncomingOnly ==
    /\ pc = "cleanup"
    /\ fs' = RemoveAll(fs, incomingTmpDir)
    /\ pc' = "mkStaging"
    /\ UNCHANGED <<opts, idx, lockConfig, err, calls, preDst, staged, preTmp, other,
                 overlapped>>

\* line 37: the leftover staging root is removed before the cleanup is
\* deferred, so a failure returns without it.
CleanUpTmpDir ==
    /\ pc = "cleanup"
    /\ \/ /\ fs' = RemoveAll(fs, tmpDir)
          /\ pc' = "mkStaging"
          /\ UNCHANGED err
       \/ /\ Exists(fs, tmpDir)
          /\ fs' \in cleanUpTmpDirFailed(fs)
          /\ err' = Error("Deleting tmp dir", tmpDir)
          /\ pc' = "done"
    /\ UNCHANGED <<opts, idx, lockConfig, calls, preDst, staged, preTmp, other,
                 overlapped>>

\* line 44
MkdirStaging ==
    /\ pc = "mkStaging"
    /\ \/ /\ fs' = MkdirAll(fs, stagingTmpDir)
          /\ pc' = "mkIncoming"
          /\ UNCHANGED err
       \/ /\ fs' \in MkdirAllFailed(fs, stagingTmpDir)
          /\ Return(Error("Creating staging dir", stagingTmpDir))
    /\ UNCHANGED <<opts, idx, lockConfig, calls, preDst, staged, preTmp, other,
                 overlapped>>

\* (mutant) the error of the second MkdirAll is set but Sync goes on.
MkdirIncoming_NoReturn ==
    /\ pc = "mkIncoming"
    /\ \/ /\ fs' = MkdirAll(fs, incomingTmpDir)
          /\ UNCHANGED err
       \/ /\ fs' = fs
          /\ err' = Error("Creating incoming dir", incomingTmpDir)
    /\ pc' = "loop"
    /\ UNCHANGED <<opts, idx, lockConfig, calls, preDst, staged, preTmp, other,
                 overlapped>>

\* line 49
MkdirIncoming ==
    /\ pc = "mkIncoming"
    /\ \/ /\ fs' = MkdirAll(fs, incomingTmpDir)
          /\ pc' = "loop"
          /\ UNCHANGED err
       \/ /\ fs' = fs
          /\ Return(Error("Creating incoming dir", incomingTmpDir))
    /\ UNCHANGED <<opts, idx, lockConfig, calls, preDst, staged, preTmp, other,
                 overlapped>>

\* lines 54-61: the next entry, and the parent of its staging path
MkdirStagingDstPathParent ==
    /\ pc = "loop"
    /\ idx <= N
    /\ \/ /\ fs' = MkdirAll(fs, stagingDstPathParent)
          /\ pc' = "switch"
          /\ UNCHANGED err
       \/ /\ ~Exists(fs, stagingDstPathParent)
          /\ fs' = fs
          /\ Return(Error("Creating directory", stagingDstPathParent))
    /\ UNCHANGED <<opts, idx, lockConfig, calls, preDst, staged, preTmp, other,
                 overlapped>>

\* What a Syncer of this package leaves at the staging path when it succeeds.
Fetched(k) == [data |-> k, filtered |-> FALSE]

\* FileFilter.Apply on a staged subtree, successful.
Filtered(node) == [node EXCEPT !.filtered = TRUE]

SyncingError(k) ==
    CASE k = "git" -> "Syncing directory with git contents"
      [] k = "http" -> "Syncing directory with HTTP contents"
      [] k = "image" -> "Syncing directory with image contents"
      [] k = "githubRelease" -> "Syncing directory with github release contents"
      [] k = "helmChart" -> "Syncing directory with helm chart contents"

\* (mutant) the helm chart case appends its lock entry without filtering.
SyncerSync_HelmChartUnfiltered ==
    /\ pc = "switch"
    /\ Selected(contents) \in FetchKinds
    /\ \/ /\ Exists(fs, stagingDstPathParent)
          /\ fs' = WriteNode(fs, stagingDstPath, Fetched(Selected(contents)))
          /\ calls' = Append(calls, Call("Sync", Selected(contents), idx, TRUE))
          /\ pc' = IF Selected(contents) = "helmChart" THEN "append" ELSE "filter"
          /\ UNCHANGED err
       \/ /\ fs' \in PartialWrites(fs, stagingDstPath)
          /\ calls' = Append(calls, Call("Sync", Selected(contents), idx, FALSE))
          /\ Return(Error(SyncingError(Selected(contents)), contents.Path))
    /\ UNCHANGED <<opts, idx, lockConfig, preDst, staged, preTmp, other,
                 overlapped>>

\* lines 64-71, 83-89, 101-107, 119-128, 140-149: the Syncer of the selected
\* kind fetches into the staging path.
SyncerSync ==
    /\ pc = "switch"
    /\ Selected(contents) \in FetchKinds
    /\ \/ /\ Exists(fs, stagingDstPathParent)
          /\ fs' = WriteNode(fs, stagingDstPath, Fetched(Selected(contents)))
          /\ calls' = Append(calls, Call("Sync", Selected(contents), idx, TRUE))
          /\ pc' = "filter"
          /\ UNCHANGED err
       \/ /\ fs' \in PartialWrites(fs, stagingDstPath)
          /\ calls' = Append(calls, Call("Sync", Selected(contents), idx, FALSE))
          /\ Return(Error(SyncingError(Selected(contents)), contents.Path))
    /\ UNCHANGED <<opts, idx, lockConfig, preDst, staged, preTmp, other,
                 overlapped>>

\* (mutant) the error of os.Rename is not checked.
ManualRename_Unchecked ==
    /\ pc = "switch"
    /\ Selected(contents) = "manual"
    /\ fs' = Rename(fs, srcPath, stagingDstPath)
    /\ pc' = "append"
    /\ UNCHANGED <<opts, idx, lockConfig, err, calls, preDst, staged, preTmp, other,
                 overlapped>>

\* lines 161-169: a manual entry is moved out of the destination.
ManualRename ==
    /\ pc = "switch"
    /\ Selected(contents) = "manual"
    /\ \/ /\ Exists(fs, srcPath)
          /\ Exists(fs, stagingDstPathParent)
          /\ fs' = Rename(fs, srcPath, stagingDstPath)
          /\ pc' = "append"
          /\ UNCHANGED err
       \/ /\ fs' = fs
          /\ Return(Error("Moving directory to staging dir", srcPath))
    /\ UNCHANGED <<opts, idx, lockConfig, calls, preDst, staged, preTmp, other,
                 overlapped>>

\* lines 176-182: another directory is copied into the staging path.
DirectoryCopy ==
    /\ pc = "switch"
    /\ Selected(contents) = "directory"
    /\ \/ /\ Exists(fs, stagingDstPathParent)
          /\ fs' = WriteNode(fs, stagingDstPath, Fetched("directory"))
          /\ calls' = Append(calls, Call("Copy", "directory", idx, TRUE))
          /\ pc' = "filter"
          /\ UNCHANGED err
       \/ /\ fs' \in PartialWrites(fs, stagingDstPath)
          /\ calls' = Append(calls, Call("Copy", "directory", idx, FALSE))
          /\ Return(Error("Copying another directory contents into directory", contents.Path))
    /\ UNCHANGED <<opts, idx, lockConfig, preDst, staged, preTmp, other,
                 overlapped>>

\* (mutant) the default case skips the entry instead of returning.
UnknownContents_Skip ==
    /\ pc = "switch"
    /\ Selected(contents) = "none"
    /\ idx' = idx + 1
    /\ pc' = "loop"
    /\ UNCHANGED <<opts, fs, lockConfig, err, calls, preDst, staged, preTmp, other,
                 overlapped>>

\* lines 194-196: no field is populated.
UnknownContents ==
    /\ pc = "switch"
    /\ Selected(contents) = "none"
    /\ Return(Error("Unknown contents type for directory", contents.Path))
    /\ UNCHANGED <<opts, fs, idx, lockConfig, calls, preDst, staged, preTmp, other,
                 overlapped>>

\* (mutant) the error of FileFilter.Apply is not checked.
FileFilterApply_Unchecked ==
    /\ pc = "filter"
    /\ \E succeeded \in BOOLEAN :
          /\ calls' = Append(calls, Call("Filter", Selected(contents), idx, succeeded))
          /\ fs' = IF succeeded
                   THEN WriteNode(fs, stagingDstPath, Filtered(fs[stagingDstPath]))
                   ELSE fs
    /\ pc' = "append"
    /\ UNCHANGED <<opts, idx, lockConfig, err, preDst, staged, preTmp, other,
                 overlapped>>

\* lines 73-76, 91-94, 109-112, 130-133, 151-154, 184-187
FileFilterApply ==
    /\ pc = "filter"
    /\ \/ /\ Exists(fs, stagingDstPath)
          /\ fs' = WriteNode(fs, stagingDstPath, Filtered(fs[stagingDstPath]))
          /\ calls' = Append(calls, Call("Filter", Selected(contents), idx, TRUE))
          /\ pc' = "append"
          /\ UNCHANGED err
       \/ /\ fs' \in PartialWrites(fs, stagingDstPath)
          /\ calls' = Append(calls, Call("Filter", Selected(contents), idx, FALSE))
          /\ Return(Error("Filtering paths in directory", contents.Path))
    /\ UNCHANGED <<opts, idx, lockConfig, preDst, staged, preTmp, other,
                 overlapped>>

\* (mutant) the new lock entry is put in front of the others.
AppendLock_Prepend ==
    /\ pc = "append"
    /\ lockConfig' = [lockConfig EXCEPT
            !.Contents = <<LockDirectoryContents(contents, Selected(contents))>> \o @]
    /\ idx' = idx + 1
    /\ pc' = "loop"
    /\ UNCHANGED <<opts, fs, err, calls, preDst, staged, preTmp, other,
                 overlapped>>

\* lines 78-81, 96-99, 114-117, 135-138, 156-159, 171-174, 189-192
AppendLock ==
    /\ pc = "append"
    /\ lockConfig' = [lockConfig EXCEPT
            !.Contents = Append(@, LockDirectoryContents(contents, Selected(contents)))]
    /\ idx' = idx + 1
    /\ pc' = "loop"
    /\ UNCHANGED <<opts, fs, err, calls, preDst, staged, preTmp, other,
                 overlapped>>

\* lines 199-202: every entry is staged; the old destination is deleted.
RemoveAllDst ==
    /\ pc = "loop"
    /\ idx > N
    /\ staged' = Tree(fs, stagingTmpDir)
    /\ \/ /\ fs' = RemoveAll(fs, opts.Path)
          /\ pc' = "mkParent"
          /\ UNCHANGED err
       \/ /\ Exists(fs, opts.Path)
          /\ fs' \in RemoveAllFailed(fs, opts.Path)
          /\ Return(Error("Deleting dir", opts.Path))
    /\ UNCHANGED <<opts, idx, lockConfig, calls, preDst, preTmp, other,
                 overlapped>>

\* lines 205-210
MkdirParentPath ==
    /\ pc = "mkParent"
    /\ \/ /\ fs' = MkdirAll(fs, parentPath)
          /\ pc' = "rename"
          /\ UNCHANGED err
       \/ /\ ~Exists(fs, parentPath)
          /\ fs' = fs
          /\ Return(Error("Creating final location parent dir", parentPath))
    /\ UNCHANGED <<opts, idx, lockConfig, calls, preDst, staged, preTmp, other,
                 overlapped>>

\* lines 212-217
RenameStaging ==
    /\ pc = "rename"
    /\ \/ /\ Exists(fs, stagingTmpDir)
          /\ Under(fs, opts.Path) \subseteq {Clean(opts.Path)}
          /\ fs' = Rename(fs, stagingTmpDir, opts.Path)
          /\ Return(NoError)
       \/ /\ fs' = fs
          /\ Return(Error("Moving staging directory to final location", stagingTmpDir))
    /\ UNCHANGED <<opts, idx, lockConfig, calls, preDst, staged, preTmp, other,
                 overlapped>>

\* line 42: the deferred cleanUpTmpDir; its error is dropped.
DeferredCleanUpTmpDir ==
    /\ pc = "defer"
    /\ \/ fs' = RemoveAll(fs, tmpDir)
       \/ /\ Exists(fs, tmpDir)
          /\ fs' \in cleanUpTmpDirFailed(fs)
    /\ pc' = "done"
    /\ UNCHANGED <<opts, idx, lockConfig, err, calls, preDst, staged, preTmp, other,
                 overlapped>>

Next ==
    \/ CleanUpTmpDir
    \/ MkdirStaging
    \/ MkdirIncoming
    \/ MkdirStagingDstPathParent
    \/ SyncerSync
    \/ ManualRename
    \/ DirectoryCopy
    \/ UnknownContents
    \/ FileFilterApply
    \/ AppendLock
    \/ RemoveAllDst
    \/ MkdirParentPath
    \/ RenameStaging
    \/ DeferredCleanUpTmpDir

Spec == Init /\ [][Next]_vars

(* ------------------------------------------- more than one call of Sync *)
\* The locals of the running call of Sync and, once it has returned, the
\* destination tree it returned with.
Current ==
    [opts |-> opts, pc |-> pc, idx |-> idx, lockConfig |-> lockConfig, err |-> err,
     calls |-> calls, preDst |-> preDst, staged |-> staged, preTmp |-> preTmp,
     dst |-> IF pc = "done" THEN Tree(fs, opts.Path) ELSE <<>>]

\* A call of Sync with options o that finds the file system f (lines 34-35).
Invocation(o, f) ==
    [opts |-> o, pc |-> "cleanup", idx |-> 1,
     lockConfig |-> [Path |-> o.Path, Contents |-> <<>>], err |-> NoError,
     calls |-> <<>>, preDst |-> Tree(f, o.Path), staged |-> <<>>,
     preTmp |-> Tree(f, tmpDir), dst |-> <<>>]

\* The call v is the running one from now on.
Resume(v) ==
    /\ opts' = v.opts
    /\ pc' = v.pc
    /\ idx' = v.idx
    /\ lockConfig' = v.lockConfig
    /\ err' = v.err
    /\ calls' = v.calls
    /\ preDst' = v.preDst
    /\ staged' = v.staged
    /\ preTmp' = v.preTmp

\* Sync has returned and is called again with the same options, on the file
\* system the first call left.
SyncAgain ==
    /\ pc = "done"
    /\ other.pc = "none"
    /\ other' = Current
    /\ Resume(Invocation(opts, fs))
    /\ UNCHANGED <<fs, overlapped>>

NextTwice == Next \/ SyncAgain

\* The first of the two calls finds no leftover staging root.
InitTwice ==
    /\ Init
    /\ ~Exists(fs, tmpDir)

SpecTwice == InitTwice /\ [][NextTwice]_vars

\* The configurations of two calls of Sync that run in the same working
\* directory with the same destination.
ConcContents ==
    {<<[Path |-> <<"a">>, populated |-> {"git"}]>>,
     <<[Path |-> <<"c", "d">>, populated |-> {"directory"}]>>,
     <<[Path |-> <<"c", "d">>, populated |-> {"manual"}]>>,
     <<[Path |-> <<"a">>, populated |-> {}]>>}

InitConc ==
    /\ Init
    /\ opts.Contents \in ConcContents

\* A second call of Sync is made in the same working directory.
SyncConcurrently ==
    /\ pc = "cleanup"
    /\ other.pc = "none"
    /\ \E c \in ConcContents :
          other' = Invocation([Path |-> opts.Path, Contents |-> c], fs)
    /\ UNCHANGED <<opts, fs, pc, idx, lockConfig, err, calls, preDst, staged, preTmp,
                   overlapped>>

\* The scheduler takes the other call of Sync; a call that has not made its
\* first step finds the file system as it is now. The two calls overlap when
\* the one that is left has started and not returned.
Switch ==
    /\ other.pc \notin {"none", "done"}
    /\ other' = Current
    /\ Resume(IF other.pc = "cleanup" THEN Invocation(other.opts, fs) ELSE other)
    /\ overlapped' = (overlapped \/ pc \notin {"cleanup", "done"})
    /\ UNCHANGED fs

NextConc == Next \/ SyncConcurrently \/ Switch

SpecConc == InitConc /\ [][NextConc]_vars

(* ---------------------------------------------------------------- claims *)
Returned == pc = "done"
Failed == Returned /\ err # NoError
Dst == Tree(fs, opts.Path)
SyncerErrors ==
    {SyncingError(k) : k \in FetchKinds}
    \cup {"Copying another directory contents into directory"}

\* C1: if the Syncer of an entry fails, the destination tree after the call
\* is the destination tree before the call.
C1_AtomicOnSyncerFailure ==
    (Returned /\ err.msg \in SyncerErrors) => Dst = preDst

\* C2: at every moment the destination holds the complete tree of before the
\* call or the complete tree assembled by the call.
C2_PreOrPostTree ==
    \/ Dst = preDst
    \/ /\ staged # <<>>
       /\ Dst = staged

\* C3: no step changes the destination while some entry has not yet been
\* fetched, filtered and recorded.
C3_DstUntouchedBeforeCommit ==
    [][idx <= N => Tree(fs', opts.Path) = Tree(fs, opts.Path)]_vars

\* C4: when all entries succeeded, the returned lock has one entry per
\* configured entry, with the same paths in the same order, and the
\* destination path of the configuration.
C4_LockMatchesContents ==
    (Returned /\ idx > N) =>
        /\ lockConfig.Path = opts.Path
        /\ Len(lockConfig.Contents) = N
        /\ \A i \in 1..N : lockConfig.Contents[i].Path = opts.Contents[i].Path

C4_Witness ==
    /\ Returned /\ err = NoError
    /\ N >= 2
    /\ opts.Contents[1].Path # opts.Contents[2].Path
    /\ lockConfig.Contents[2].Path = opts.Contents[2].Path

\* C5: the lock returned with an error has no entries.
C5_NoPartialLock ==
    Failed => lockConfig.Contents = <<>>

\* C6: after Sync returned, the staging root does not exist.
C6_NoStagingRootLeft ==
    Returned => ~Exists(fs, tmpDir)

\* C7: a failed Sync leaves the destination as it was, unless the failing
\* step is the deletion of the old destination.
C7_FailureLeavesDst ==
    (Failed /\ err.msg # "Deleting dir") => Dst = preDst

NoKind(k) == opts.Contents[k].populated = {}
CommitStarted == staged # <<>>

C8_State ==
    \A k \in 1..N : NoKind(k) =>
        /\ idx <= k
        /\ Len(lockConfig.Contents) < k
        /\ \A n \in 1..Len(calls) : calls[n].entry < k
        /\ ~CommitStarted
        /\ Returned => err # NoError

C8_Step ==
    (pc = "switch" /\ NoKind(idx)) =>
        /\ pc' = "defer"
        /\ err' = Error("Unknown contents type for directory", opts.Contents[idx].Path)
        /\ UNCHANGED <<lockConfig, calls, idx>>
        /\ Tree(fs', opts.Path) = Tree(fs, opts.Path)

\* C8: an entry with no source kind populated makes Sync fail; when the
\* switch reaches it the error names its content path; it gets no lock entry,
\* no Syncer or Filter call, no later entry is processed and the commit is
\* not performed.
C8_UnknownContentsFails == []C8_State /\ [][C8_Step]_vars

C8_Witness ==
    /\ Returned
    /\ idx < N
    /\ NoKind(idx)
    /\ err = Error("Unknown contents type for directory", opts.Contents[idx].Path)

\* C9: an entry with zero or with several source kinds populated gets no
\* Syncer call and no lock entry.
C9_ExactlyOneKind ==
    \A k \in 1..N : Cardinality(opts.Contents[k].populated) # 1 =>
        /\ \A n \in 1..Len(calls) : calls[n].entry # k
        /\ Len(lockConfig.Contents) < k

ManualFailed == pc \in {"defer", "done"} /\ err.msg = "Moving directory to staging dir"

C10_State ==
    ManualFailed =>
        /\ Len(lockConfig.Contents) = idx - 1
        /\ \A n \in 1..Len(calls) : calls[n].entry < idx
        /\ ~CommitStarted

C10_Step ==
    (pc = "switch" /\ Selected(contents) = "manual" /\ ~Exists(fs, srcPath)) =>
        /\ pc' = "defer"
        /\ err' = Error("Moving directory to staging dir",
                        Clean(opts.Path \o opts.Contents[idx].Path))
        /\ UNCHANGED <<lockConfig, idx>>

\* C10: a manual entry whose source path (destination path joined with the
\* content path) does not exist makes Sync fail with an error naming that
\* path; no lock entry is appended for it, no later entry is processed and
\* the commit is not performed.
C10_ManualAbsentFails == []C10_State /\ [][C10_Step]_vars

C10_Witness ==
    /\ Returned
    /\ ManualFailed
    /\ idx < N
    /\ ~Exists(fs, err.path)
    /\ err.path = <<"vendor", "out">> \o opts.Contents[idx].Path

CallsOf(k) == SelectSeq(calls, LAMBDA c : c.entry = k)

\* The calls a fully processed entry has made, all without error: a Manual
\* entry makes none, a Directory entry a copy and a filter, the others a Sync
\* and a filter.
CompletedCalls(k) ==
    LET kind == Selected(opts.Contents[k])
    IN  IF kind = "manual" THEN <<>>
        ELSE <<Call(IF kind = "directory" THEN "Copy" ELSE "Sync", kind, k, TRUE),
               Call("Filter", kind, k, TRUE)>>

C13_State ==
    /\ idx \in 1..(N + 1)
    /\ \A n \in 1..Len(calls) : calls[n].entry <= idx
    /\ \A n \in 1..(Len(calls) - 1) :
          /\ calls[n].entry <= calls[n + 1].entry
          /\ calls[n].ok
    /\ \A k \in 1..(idx - 1) : CallsOf(k) = CompletedCalls(k)
    /\ (calls # <<>> /\ ~calls[Len(calls)].ok) =>
          /\ pc \in {"defer", "done"}
          /\ err # NoError
          /\ err.path = opts.Contents[calls[Len(calls)].entry].Path
    /\ err # NoError => pc \in {"defer", "done"}

C13_Step ==
    pc \in {"defer", "done"} => UNCHANGED <<idx, calls, lockConfig, err>>

SyncedThenFiltered(i) ==
    \E n, m \in 1..Len(calls) :
        /\ n < m
        /\ calls[n].entry = i /\ calls[n].op \in {"Sync", "Copy"} /\ calls[n].ok
        /\ calls[m].entry = i /\ calls[m].op = "Filter" /\ calls[m].ok

BeginErrors == {"Deleting tmp dir", "Creating staging dir", "Creating incoming dir"}
CommitErrors ==
    {"Deleting dir", "Creating final location parent dir",
     "Moving staging directory to final location"}

\* C16: when removing the leftover staging root or creating the staging or
\* the incoming directory fails, Sync returns the error having called no
\* Syncer and no Filter, with a lock without entries and the destination as
\* it was.
C16_BeginFailure ==
    err.msg \in BeginErrors =>
        /\ pc \in {"defer", "done"}
        /\ calls = <<>>
        /\ idx = 1
        /\ lockConfig = [Path |-> opts.Path, Contents |-> <<>>]
        /\ Dst = preDst

C16_Witness ==
    /\ Returned
    /\ err = Error("Creating incoming dir", <<".vendir-tmp", "incoming">>)
    /\ N >= 1
    /\ <<"x">> \in DOMAIN Dst

\* What a successful Sync puts at the content path of entry k.
Expected(k) ==
    IF Selected(opts.Contents[k]) = "manual"
    THEN preDst[opts.Contents[k].Path]
    ELSE [data |-> Selected(opts.Contents[k]), filtered |-> TRUE]

ExpectedPaths == UNION {Prefixes(opts.Contents[k].Path) : k \in 1..N} \cup {<<>>}

EachEntryAtItsPath ==
    /\ Dst = staged
    /\ DOMAIN Dst = ExpectedPaths
    /\ \A k \in 1..N :
          /\ opts.Contents[k].Path \in DOMAIN Dst
          /\ Dst[opts.Contents[k].Path] = Expected(k)

\* No content path is another one or lies below another one.
DistinctPaths ==
    \A j, k \in 1..N :
        j # k => ~IsPrefix(opts.Contents[j].Path, opts.Contents[k].Path)

C18_LockIsPrefix ==
    /\ Len(lockConfig.Contents) = idx - 1
    /\ Len(lockConfig.Contents) <= N
    /\ \A i \in 1..Len(lockConfig.Contents) :
          lockConfig.Contents[i].Path = opts.Contents[i].Path
    /\ (Failed /\ err.msg \in CommitErrors) => Len(lockConfig.Contents) = N
    /\ (Failed /\ err.msg \notin CommitErrors) => Len(lockConfig.Contents) < N \/ N = 0

C18_Witness ==
    /\ Failed
    /\ N = 2
    /\ idx = 2
    /\ err.msg = "Unknown contents type for directory"
    /\ opts.Contents[1].Path # opts.Contents[2].Path
    /\ Len(lockConfig.Contents) = 1
    /\ lockConfig.Contents[1].Path = opts.Contents[1].Path

C19_Order == <<"git", "http", "image", "githubRelease", "helmChart", "manual", "directory">>
FirstInOrder(S) ==
    C19_Order[CHOOSE n \in 1..Len(C19_Order) :
                 /\ C19_Order[n] \in S
                 /\ \A m \in 1..(n - 1) : C19_Order[m] \notin S]

SyncerCallsOf(k) ==
    SelectSeq(calls, LAMBDA c : c.entry = k /\ c.op \in {"Sync", "Copy"})

\* C19: an entry has at most one Syncer call and at most one lock entry, the
\* lock entry has exactly one kind set, and the kind of both is the first
\* populated one in the order git, http, image, githubRelease, helmChart,
\* manual, directory.
C19_FirstPopulatedKind ==
    /\ Len(lockConfig.Contents) <= N
    /\ \A k \in 1..N :
          LET populated == opts.Contents[k].populated
          IN  /\ Len(SyncerCallsOf(k)) <= 1
              /\ \A n \in 1..Len(SyncerCallsOf(k)) :
                    /\ populated # {}
                    /\ SyncerCallsOf(k)[n].kind = FirstInOrder(populated)
              /\ k <= Len(lockConfig.Contents) =>
                    /\ populated # {}
                    /\ lockConfig.Contents[k].tags = {FirstInOrder(populated)}
                    /\ Cardinality(lockConfig.Contents[k].tags) = 1

C19_Witness ==
    /\ Returned /\ err = NoError
    /\ N = 2
    /\ opts.Contents[1].populated = {"git", "http"}
    /\ opts.Contents[2].populated = {"manual", "directory"}
    /\ lockConfig.Contents[1].tags = {"git"}
    /\ lockConfig.Contents[2].tags = {"manual"}
    /\ Len(SyncerCallsOf(1)) = 1 /\ SyncerCallsOf(1)[1].kind = "git"
    /\ SyncerCallsOf(2) = <<>>

EmptyDir == (<<>> :> DirNode)

\* C15: whatever was below the staging root on entry, when the first entry
\* is dispatched the staging and the incoming directory exist and are empty;
\* and a tree that is committed has nothing of the leftover in it, only paths
\* of this call's entries.
C15_FreshStaging ==
    /\ (pc = "loop" /\ idx = 1) =>
          /\ Tree(fs, stagingTmpDir) = EmptyDir
          /\ Tree(fs, incomingTmpDir) = EmptyDir
    /\ CommitStarted =>
          /\ DOMAIN staged \subseteq ExpectedPaths
          /\ \A p \in DOMAIN staged : staged[p] # StaleNode
    /\ (Returned /\ err = NoError) =>
          /\ DOMAIN Dst \subseteq ExpectedPaths
          /\ \A p \in DOMAIN Dst : Dst[p] # StaleNode

C15_Witness ==
    /\ Returned /\ err = NoError
    /\ <<"staging", "a">> \in DOMAIN preTmp
    /\ preTmp[<<"staging", "a">>] = StaleNode
    /\ N = 1
    /\ opts.Contents[1] = [Path |-> <<"c", "d">>, populated |-> {"git"}]
    /\ DOMAIN Dst = {<<>>, <<"c">>, <<"c", "d">>}

\* The second of two calls in sequence has returned.
SecondReturned == other.pc = "done" /\ ~overlapped /\ Returned /\ other.opts = opts

\* The outcome of a call does not come from a failing file-system call or a
\* failing Syncer: it succeeded, or met an entry without a source, or a
\* manual entry whose directory is not there.
FirstDeterministic ==
    other.err.msg \in {"nil", "Unknown contents type for directory"}
SecondDeterministic ==
    \/ err.msg \in {"nil", "Unknown contents type for directory"}
    \/ err.msg = "Moving directory to staging dir" /\ ~Exists(fs, srcPath)

\* C11: when Sync is run twice in sequence on the same configuration and no
\* file-system call and no Syncer fails, the second run returns with the same
\* destination tree and the same lock as the first.
C11_Idempotent ==
    (SecondReturned /\ FirstDeterministic /\ SecondDeterministic) =>
        /\ Dst = other.dst
        /\ lockConfig = other.lockConfig

\* C11 for two runs that both succeed.
C11_IdempotentOnSuccess ==
    (SecondReturned /\ other.err = NoError /\ err = NoError) =>
        /\ Dst = other.dst
        /\ lockConfig = other.lockConfig

C11_SuccessWitness ==
    /\ SecondReturned /\ other.err = NoError /\ err = NoError
    /\ N = 2
    /\ opts.Contents[1].populated = {"manual"}
    /\ opts.Contents[2].populated = {"git"}

\* The call v has created the staging directory and not yet moved it to the
\* destination.
Assembling(v) ==
    v.pc \in {"mkIncoming", "loop", "switch", "filter", "append", "mkParent", "rename"}

\* The staging directory of a call that is assembling it is gone.
StagingDeleted ==
    ~Exists(fs, stagingTmpDir) /\ (Assembling(Current) \/ Assembling(other))

\* The tree a call took for its commit has a path that is of none of its
\* entries.
ForeignCommitted(v) ==
    \E p \in DOMAIN v.staged :
        p \notin UNION {Prefixes(v.opts.Contents[k].Path) : k \in 1..Len(v.opts.Contents)}

Interference ==
    \/ StagingDeleted
    \/ ForeignCommitted(Current)
    \/ other.pc # "none" /\ ForeignCommitted(other)

\* C12: two calls of Sync that do not overlap never lose the staging
\* directory while assembling it and never commit a path of the other call;
\* two calls that overlap can (the witness).
C12_SerializedSafe == ~overlapped => ~Interference

\* A call has returned successfully with a path of the other call in the
\* destination, and its deferred cleanup has removed the staging root while
\* the other call is between its Syncer and its Filter.
C12_Witness ==
    /\ overlapped
    /\ Returned /\ err = NoError
    /\ ForeignCommitted(Current)
    /\ <<"c", "d">> \in DOMAIN Dst
    /\ opts.Contents = <<[Path |-> <<"a">>, populated |-> {"git"}]>>
    /\ other.pc = "filter"
    /\ other.opts.Contents = <<[Path |-> <<"c", "d">>, populated |-> {"directory"}]>>
    /\ ~Exists(fs, tmpDir)

\* The initial cleanup of one call has removed the staging directory in which
\* the other call has staged its entry.
C12_CleanupDeletesStaging ==
    /\ overlapped
    /\ pc = "mkStaging"
    /\ other.pc = "filter"
    /\ Len(other.calls) = 1
    /\ ~Exists(fs, stagingTmpDir)

====
